---- MODULE Spec2Model ----
(***************************************************************************)
(* SmartLabelManager (packages/smartlabel/src/SmartlabelManager.js):       *)
(* the id-keyed store of instances, the life cycle of an instance          *)
(* (constructor, setStyle, useEllipsesOnOverflow, dispose), the advanced   *)
(* cache of _calCharDimWithCache / getOriSize and the plain-text fitting   *)
(* algorithm of getSmartText.                                              *)
(*                                                                         *)
(* Texts are sequences of one-character strings; the break marker is the   *)
(* token "<br/>".  Widths and heights are exact rationals, kept as         *)
(* integers in units of 1/Scale pixel, so that the repetition correction   *)
(* (tw - length * twi) / (length + 1) is computed without rounding.        *)
(***************************************************************************)
EXTENDS Integers, Sequences, FiniteSets, TLC

VARIABLES
    store,      \* SmartLabelManager.store: id -> index of the instance, 0 when absent
    insts,      \* every instance created so far (callers may hold any of them)
    ret,        \* what the last call returned (or that it raised)
    last,       \* the latest getSmartText call made since the style or the ellipsis flag changed
    prev,       \* the getSmartText call before it
    args,       \* the arguments of the layout request under study (SpecFit)
    nbiSlack,   \* how far getNearestBreakIndex stays below the exact position
    steps       \* number of calls made so far

vars == <<store, insts, ret, last, prev, args, nbiSlack, steps>>

(***************************************************************************)
(* Bounds of the model.                                                    *)
(***************************************************************************)
MaxInst == 2
MaxSteps == 5
MaxCacheLimit == 2
MaxCacheCalls == 6
MaxTextLen == 5
MaxWidthPx == 5
MaxLines == 3

\* slLib.maxDefaultCacheLimit, the fallback of options.maxCacheLimit
DefaultCacheLimit == 500

(***************************************************************************)
(* Numbers.  NaN stands for every value that is not a number in the code:  *)
(* NaN itself and the non-numeric strings that number + string gives.      *)
(* Arithmetic on it gives it back and every comparison with it is false.   *)
(***************************************************************************)
NaN == -1000000000
Null == -2000000000

RECURSIVE GCD(_, _)
GCD(a, b) == IF b = 0 THEN a ELSE GCD(b, a % b)

RECURSIVE LCMUpTo(_)
LCMUpTo(n) == IF n <= 1 THEN 1 ELSE (LCMUpTo(n - 1) * n) \div GCD(LCMUpTo(n - 1), n)

\* one pixel; every denominator length + 1 and the factor 1.2 divide it
Scale == LCMUpTo(IF MaxTextLen + 1 < 5 THEN 5 ELSE MaxTextLen + 1)

Px(n) == n * Scale

IsNum(x) == x # NaN /\ x # Null

Plus(x, y) == IF IsNum(x) /\ IsNum(y) THEN x + y ELSE NaN

GT(x, y) == IsNum(x) /\ IsNum(y) /\ x > y

\* oriHeight < maxHeight && oriWidth < maxWidth in place of <=
LEStrict(x, y) == IsNum(x) /\ IsNum(y) /\ x < y

LE(x, y) == IsNum(x) /\ IsNum(y) /\ x <= y

MaxNum(x, y) == IF IsNum(x) /\ IsNum(y) THEN (IF x > y THEN x ELSE y) ELSE NaN

\* Math.round: the nearest whole pixel, halves upwards
Round(x) == IF IsNum(x) THEN ((2 * x + Scale) \div (2 * Scale)) * Scale ELSE NaN

RECURSIVE Pow10(_)
Pow10(n) == IF n = 0 THEN 1 ELSE 10 * Pow10(n - 1)

RECURSIVE Digits(_)
Digits(n) == IF n < 10 THEN 1 ELSE 1 + Digits(n \div 10)

\* parseFloat of the first field of (a + "b,...") for whole pixels a and b
DecConcat(a, b) == Px((a \div Scale) * Pow10(Digits(b \div Scale)) + (b \div Scale))

(***************************************************************************)
(* Strings.                                                                *)
(***************************************************************************)
BR == "<br/>"
Undef == "undefined"

RECURSIVE Flatten(_)
Flatten(arr) == IF arr = <<>> THEN <<>> ELSE Head(arr) \o Flatten(Tail(arr))

RECURSIVE Repeat(_, _)
Repeat(str, n) == IF n <= 0 THEN <<>> ELSE str \o Repeat(str, n - 1)

\* Array.prototype.slice(start, end) for start >= 0; a negative end counts from the end
JsSlice(arr, start, end) ==
    LET e == IF end < 0 THEN (IF Len(arr) + end < 0 THEN 0 ELSE Len(arr) + end)
             ELSE (IF end > Len(arr) THEN Len(arr) ELSE end)
    IN  IF e <= start THEN <<>> ELSE SubSeq(arr, start + 1, e)

\* String.prototype.substr(start, length)
Substr(str, start, n) ==
    LET e == IF start + n > Len(str) THEN Len(str) ELSE start + n
    IN  IF n <= 0 \/ start >= Len(str) THEN <<>> ELSE SubSeq(str, start + 1, e)

\* String.prototype.lastIndexOf(ch) on the first n characters; -1 when absent
RECURSIVE LastIndexOf(_, _, _)
LastIndexOf(str, n, ch) ==
    IF n <= 0 THEN -1
    ELSE IF n <= Len(str) /\ str[n] = ch THEN n - 1
    ELSE LastIndexOf(str, n - 1, ch)

\* Array.prototype.splice(index, 1, elem) with a 0-based index
Splice1(arr, index, elem) == [arr EXCEPT ![index + 1] = elem]

RECURSIVE TrimLeft(_)
TrimLeft(str) ==
    IF str # <<>> /\ Head(str) = " " THEN TrimLeft(Tail(str)) ELSE str

RECURSIVE TrimRight(_)
TrimRight(str) ==
    IF str # <<>> /\ str[Len(str)] = " " THEN TrimRight(SubSeq(str, 1, Len(str) - 1)) ELSE str

fastTrim(str) == TrimRight(TrimLeft(str))

\* str.replace(/(\s+)/g, ' ')
RECURSIVE CollapseSpaces(_)
CollapseSpaces(str) ==
    IF Len(str) < 2 THEN str
    ELSE IF str[1] = " " /\ str[2] = " " THEN CollapseSpaces(Tail(str))
    ELSE <<Head(str)>> \o CollapseSpaces(Tail(str))

Normalize(text) == CollapseSpaces(fastTrim(text))

(***************************************************************************)
(* Styles and measurement contexts.  A style object has an identity (its   *)
(* name here) and four fields; the container manager keys its contexts by  *)
(* the fields.                                                             *)
(***************************************************************************)
StyleObjs == {"empty", "s1", "s1b", "s2"}

StyleFields(s) ==
    CASE s \in {"s1", "s1b"} -> [fontSize |-> "10px", fontFamily |-> "", fontWeight |-> "", fontStyle |-> ""]
      [] s = "s2"            -> [fontSize |-> "20px", fontFamily |-> "", fontWeight |-> "", fontStyle |-> ""]
      [] OTHER               -> [fontSize |-> "", fontFamily |-> "", fontWeight |-> "", fontStyle |-> ""]

\* (style.fontSize || BLANK) + (style.fontFamily || BLANK) + ..., as tokens
StyleSuffix(s) ==
    LET f == StyleFields(s)
    IN  SelectSeq(<<f.fontSize, f.fontFamily, f.fontWeight, f.fontStyle>>, LAMBDA x : x # "")

CtxKeys == {"k0", "k1", "k2"}

CtxKeyOf(s) ==
    CASE s \in {"s1", "s1b"} -> "k1"
      [] s = "s2"            -> "k2"
      [] OTHER               -> "k0"

\* the unrounded width of a character in half pixels
HalfW(c, k) ==
    LET base == CASE c = "b" -> 3
                  [] c \in {".", "i", "t"} -> 1
                  [] OTHER -> 2
    IN  IF k = "k2" THEN 2 * base ELSE base

RECURSIVE LineHalf(_, _)
LineHalf(str, k) ==
    IF str = <<>> \/ Head(str) = BR THEN 0 ELSE HalfW(Head(str), k) + LineHalf(Tail(str), k)

RECURSIVE MaxLineHalf(_, _)
MaxLineHalf(str, k) ==
    IF str = <<>> THEN 0
    ELSE IF Head(str) = BR THEN
        (IF LineHalf(Tail(str), k) > MaxLineHalf(Tail(str), k)
            THEN LineHalf(Tail(str), k) ELSE MaxLineHalf(Tail(str), k))
    ELSE MaxLineHalf(Tail(str), k)

\* container.innerHTML = str; container.offsetWidth: whole pixels, the widest line
OffsetWidth(str, k) ==
    LET first == LineHalf(str, k)
        rest  == MaxLineHalf(str, k)
        half  == IF first > rest THEN first ELSE rest
    IN  Px((half + 1) \div 2)

LineHeight(k) == IF k = "k2" THEN Px(20) ELSE Px(10)

\* container.offsetHeight of one line; in some browsers a pixel above the line height
OffsetHeight(k) == IF k = "k2" THEN Px(21) ELSE Px(10)

dotWidth(k) == OffsetWidth(<<".">>, k)

ellipsesWidth(k) == OffsetWidth(<<".", ".", ".">>, k)

(***************************************************************************)
(* An instance.  A field the code leaves undefined holds Undef (FALSE for  *)
(* a flag); _container, _context, _cache, _lineHeight and _containerObj    *)
(* name the context (by its key) whose node, canvas context, charCache,    *)
(* line height and record they are.  charCaches is the charCache of every  *)
(* context of the instance's container manager.  order, fifo and first are *)
(* history: the keys of the advanced cache in the order they entered it,   *)
(* whether every eviction so far removed the first of them, and the first  *)
(* size string ever stored under each key.                                 *)
(***************************************************************************)
EmptyMap == [x \in {} |-> 0]

MapPut(f, key, val) == [x \in (DOMAIN f) \cup {key} |-> IF x = key THEN val ELSE f[x]]

MapDel(f, key) == [x \in (DOMAIN f) \ {key} |-> f[x]]

SeqDel(s, key) == SelectSeq(s, LAMBDA x : x # key)

NewObject ==
    [ _init             |-> FALSE,
      id                |-> Undef,
      style             |-> Undef,
      _styleNotSet      |-> FALSE,
      _containerManager |-> FALSE,
      _containerObj     |-> Undef,
      _container        |-> Undef,
      _context          |-> Undef,
      _cache            |-> Undef,
      _lineHeight       |-> Undef,
      _showNoEllipses   |-> FALSE,
      maxCacheLimit     |-> 0,
      _advancedCache    |-> EmptyMap,
      _advancedCacheKey |-> <<>>,
      charCaches        |-> [k \in CtxKeys |-> EmptyMap],
      disposed          |-> FALSE,
      order             |-> <<>>,
      fifo              |-> TRUE,
      first             |-> EmptyMap ]

(***************************************************************************)
(* _calCharDimWithCache.  An entry of the advanced cache is a correction   *)
(* (t = "num", the number w) or a size string "w,h" (t = "str"; w and h    *)
(* are what parseFloat reads back from its first two fields).              *)
(***************************************************************************)
InitStr == <<"i", "n", "i", "t">>

cacheNameOf(o, text) == text \o (IF o.style = Undef THEN <<>> ELSE StyleSuffix(o.style))

cacheInitNameOf(o, text) ==
    text \o InitStr \o (IF o.style = Undef THEN <<>> ELSE StyleSuffix(o.style))

\* cache[key] = val; advancedCacheKey.push(key)
CachePush(o, key, val) ==
    [o EXCEPT !._advancedCache = MapPut(@, key, val),
              !._advancedCacheKey = Append(@, key),
              !.order = IF key \in DOMAIN o._advancedCache THEN @ ELSE Append(@, key),
              !.first = IF val.t = "str" /\ key \notin DOMAIN @ THEN MapPut(@, key, val) ELSE @]

\* if (advancedCacheKey.length > maxAdvancedCacheLimit) delete cache[advancedCacheKey.shift()]
CacheEvict(o) ==
    IF Len(o._advancedCacheKey) > o.maxCacheLimit
    THEN LET victim == Head(o._advancedCacheKey)
         IN  [o EXCEPT !._advancedCache = MapDel(@, victim),
                       !._advancedCacheKey = Tail(@),
                       !.order = SeqDel(@, victim),
                       !.fifo = @ /\ o.order # <<>> /\ Head(o.order) = victim]
    ELSE o

CacheInsert(o, key, val) == CacheEvict(CachePush(o, key, val))

\* lines 137-143: the repetition correction of text, measured
charDifference(o, text, length) ==
    [t |-> "num",
     w |-> (OffsetWidth(Repeat(text, length), o._container)
                - length * OffsetWidth(text, o._container)) \div (length + 1),
     h |-> 0]

\* lines 159-172: measure text, add the correction, store and evict
calCharDimMeasure(o, text, cacheName, asym, m) ==
    LET ow == OffsetWidth(text, o._container)
        oh == OffsetHeight(o._container)
    IN  IF o._container = Undef THEN
            \* container.innerHTML on an undefined container
            [o |-> o, kind |-> "raise", width |-> Null, height |-> Null, m |-> m]
        ELSE IF asym.t = "num" THEN
            [o |-> CacheInsert(o, cacheName, [t |-> "str", w |-> ow + asym.w, h |-> oh]),
             kind |-> "size", width |-> ow + asym.w, height |-> oh, m |-> m + 1]
        ELSE
            [o |-> CacheInsert(o, cacheName, [t |-> "str", w |-> DecConcat(ow, asym.w), h |-> asym.h]),
             kind |-> "size", width |-> NaN, height |-> oh, m |-> m + 1]

\* lines 151-157: if (cachedStyle = cache[cacheName]) ... return the cached size
calCharDimCached(o, text, cacheName, asym, m) ==
    IF /\ cacheName \in DOMAIN o._advancedCache
       /\ (o._advancedCache[cacheName].t = "str" \/ o._advancedCache[cacheName].w # 0)
    THEN IF o._advancedCache[cacheName].t = "num" THEN
            \* cachedStyle.split on a number
            [o |-> o, kind |-> "raise", width |-> Null, height |-> Null, m |-> m]
         ELSE
            [o |-> o, kind |-> "size", width |-> o._advancedCache[cacheName].w,
             height |-> o._advancedCache[cacheName].h, m |-> m]
    ELSE calCharDimMeasure(o, text, cacheName, asym, m)

calCharDimWithCache(o, text, calculateDifference, length) ==
    IF ~o._init THEN
        [o |-> o, kind |-> "false", width |-> Null, height |-> Null, m |-> 0]
    ELSE IF ~calculateDifference THEN
        calCharDimCached(o, text, cacheNameOf(o, text), [t |-> "num", w |-> 0, h |-> 0], 0)
    ELSE IF cacheInitNameOf(o, text) \in DOMAIN o._advancedCache THEN
        calCharDimCached(o, text, cacheNameOf(o, text),
                         o._advancedCache[cacheInitNameOf(o, text)], 0)
    ELSE IF o._container = Undef THEN
        \* container.innerHTML on an undefined container
        [o |-> o, kind |-> "raise", width |-> Null, height |-> Null, m |-> 0]
    ELSE
        calCharDimCached(CacheInsert(o, cacheInitNameOf(o, text), charDifference(o, text, length)),
                         text, cacheNameOf(o, text), charDifference(o, text, length), 2)

(***************************************************************************)
(* getOriSize.                                                             *)
(***************************************************************************)
\* lines 792-798: one letter measured
getOriSizeAdd(acc, letter, lSize) ==
    IF lSize.kind = "raise"
    THEN [acc EXCEPT !.o = lSize.o, !.kind = "raise", !.m = @ + lSize.m]
    ELSE [acc EXCEPT !.o = lSize.o,
                     !.height = MaxNum(@, lSize.height),
                     !.cumulativeSize = Plus(@, lSize.width),
                     !.detailObj = MapPut(@, letter, lSize.width),
                     !.m = @ + lSize.m]

RECURSIVE getOriSizeLoop(_, _, _)
getOriSizeLoop(acc, textArr, i) ==
    IF i > Len(textArr) \/ acc.kind = "raise" THEN acc
    ELSE getOriSizeLoop(
            getOriSizeAdd(acc, textArr[i],
                          calCharDimWithCache(acc.o, <<textArr[i]>>, TRUE, Len(textArr))),
            textArr, i + 1)

\* lines 786-788: return this._calCharDimWithCache(text)
getOriSizePlain(r) ==
    [o |-> r.o, kind |-> r.kind, width |-> r.width, height |-> r.height,
     detailObj |-> EmptyMap, m |-> r.m]

\* lines 800-804: the rounded sum, the height and the detailObj
getOriSizeDetailed(r) ==
    [o |-> r.o, kind |-> r.kind,
     width |-> IF r.kind = "raise" THEN Null ELSE Round(r.cumulativeSize),
     height |-> IF r.kind = "raise" THEN Null ELSE r.height,
     detailObj |-> r.detailObj, m |-> r.m]

getOriSize(o, text, detailedCalculationFlag) ==
    IF ~o._init THEN
        [o |-> o, kind |-> "false", width |-> Null, height |-> Null,
         detailObj |-> EmptyMap, m |-> 0]
    ELSE IF ~detailedCalculationFlag THEN
        getOriSizePlain(calCharDimWithCache(o, text, FALSE, 0))
    ELSE
        getOriSizeDetailed(getOriSizeLoop(
            [o |-> o, kind |-> "size", cumulativeSize |-> 0, height |-> 0,
             detailObj |-> EmptyMap, m |-> 0], text, 1))

(***************************************************************************)
(* The measuring function of _getWidthFn (the container branch) and        *)
(* slLib.getNearestBreakIndex: a number of leading characters of text      *)
(* whose measured width does not exceed maxWidth, the exact position less  *)
(* nbiSlack.                                                               *)
(***************************************************************************)
getWidth(o, str) == OffsetWidth(str, o._container)

RECURSIVE FitLen(_, _, _, _)
FitLen(o, text, maxWidth, n) ==
    IF n <= 0 THEN 0
    ELSE IF LE(getWidth(o, SubSeq(text, 1, n)), maxWidth) THEN n
    ELSE FitLen(o, text, maxWidth, n - 1)

getNearestBreakIndex(text, maxWidth, o) ==
    LET n == FitLen(o, text, maxWidth, Len(text))
    IN  IF n - nbiSlack < 0 THEN 0 ELSE n - nbiSlack

(***************************************************************************)
(* The record getSmartText returns.                                        *)
(***************************************************************************)
SmartLabel(text, maxWidth, maxHeight) ==
    [ text          |-> text,
      maxWidth      |-> maxWidth,
      maxHeight     |-> maxHeight,
      width         |-> Null,
      height        |-> Null,
      oriTextWidth  |-> Null,
      oriTextHeight |-> Null,
      oriText       |-> text,
      isTruncated   |-> FALSE,
      hasTooltext   |-> FALSE,
      tooltext      |-> <<>>,
      error         |-> FALSE ]

NoLabel == SmartLabel(<<>>, Null, Null)

\* this._cache[tempChar], filled from detailObj or by measuring when absent
charWidth(o, cache, tempChar, detailObj, useDetail) ==
    IF tempChar \in DOMAIN cache THEN [w |-> cache[tempChar], cache |-> cache, m |-> 0]
    ELSE IF useDetail /\ tempChar \in DOMAIN detailObj /\ detailObj[tempChar] # 0
         THEN [w |-> detailObj[tempChar],
               cache |-> MapPut(cache, tempChar, detailObj[tempChar]), m |-> 0]
    ELSE [w |-> getWidth(o, <<tempChar>>),
          cache |-> MapPut(cache, tempChar, getWidth(o, <<tempChar>>)), m |-> 1]

\* no cut: what a result that went through no loop records of the ellipsis budget
NoCut == [firstOver |-> -1, ellipsesStr |-> <<>>, budget |-> 0, strWidth |-> 0,
          iters |-> <<>>]

(***************************************************************************)
(* The loops of getSmartText.  c holds what a loop only reads, st the      *)
(* locals it changes; st.done is set when the loop has returned.           *)
(***************************************************************************)
\* lines 453-470 and 489-515: tempArr[i] = oriTextArr[i], the running width, trimStr
loopAdd(c, st, cw) ==
    LET tempArr  == IF st.i < Len(st.tempArr)
                    THEN [st.tempArr EXCEPT ![st.i + 1] = <<c.text[st.i + 1]>>]
                    ELSE Append(st.tempArr, <<c.text[st.i + 1]>>)
        strWidth == Plus(st.strWidth, cw.w)
    IN  [st EXCEPT !.tempArr = tempArr,
                   !.strWidth = strWidth,
                   !.trimStr = IF GT(strWidth, c.maxWidthWithEll) /\ @ = <<>>
                               THEN Flatten(JsSlice(tempArr, 0, -1)) ELSE @,
                   !.firstOver = IF GT(strWidth, c.maxWidthWithEll) /\ @ = -1
                                 THEN st.i ELSE @,
                   !.iters = Append(@, [i |-> st.i, lastIndexBroken |-> st.lastIndexBroken]),
                   !.cache = cw.cache,
                   !.m = @ + cw.m]

\* lines 471-478: the line exceeds maxWidth: cut and return
noWrapStep(o, c, st) ==
    IF GT(st.strWidth, c.maxWidthWithEll) /\ GT(st.strWidth, c.maxWidth) THEN
        [st EXCEPT !.done = TRUE, !.m = @ + 1,
                   !.sl = [@ EXCEPT !.text = fastTrim(st.trimStr) \o c.ellipsesStr,
                                    !.hasTooltext = TRUE,
                                    !.tooltext = st.sl.oriText,
                                    !.width = getWidth(o, fastTrim(st.trimStr) \o c.ellipsesStr),
                                    !.height = c.lineHeight]]
    ELSE [st EXCEPT !.i = @ + 1]

\* noWrapEnd cutting at the ellipsis budget: what was collected before the
\* budget was exceeded, with the ellipsis
noWrapEndCut(c, st) ==
    [st EXCEPT !.sl = [@ EXCEPT !.text = IF GT(st.strWidth, c.maxWidthWithEll)
                                         THEN fastTrim(st.trimStr) \o c.ellipsesStr
                                         ELSE Flatten(st.tempArr),
                                !.hasTooltext = GT(st.strWidth, c.maxWidthWithEll),
                                !.width = st.strWidth,
                                !.height = c.lineHeight]]

\* lines 481-484: the string ended within maxWidth: all of it is returned
noWrapEnd(c, st) ==
    [st EXCEPT !.sl = [@ EXCEPT !.text = Flatten(st.tempArr),
                                !.width = st.strWidth,
                                !.height = c.lineHeight]]

RECURSIVE noWrapLoop(_, _, _)
noWrapLoop(o, c, st) ==
    IF st.done THEN st
    ELSE IF st.i >= c.len THEN noWrapEnd(c, st)
    ELSE noWrapLoop(o, c,
            noWrapStep(o, c,
                loopAdd(c, st, charWidth(o, st.cache, c.text[st.i + 1], c.detailObj, TRUE))))

\* breakAt putting the marker after the hyphen wherever the hyphen is
breakAtMarkerAfter(o, c, tempArr, lastIndexBroken, i) ==
    LET n         == Len(tempArr)
        lastSpace == LastIndexOf(c.text, n, " ")
        lastDash  == LastIndexOf(c.text, n, "-")
    IN  IF lastSpace > lastIndexBroken THEN
            [ kind            |-> "space",
              strWidth        |-> getWidth(o, Flatten(JsSlice(tempArr, lastIndexBroken + 1, lastSpace))),
              tempArr         |-> Splice1(tempArr, lastSpace, <<BR>>),
              lastIndexBroken |-> lastSpace,
              newCharIndex    |-> lastSpace + 1 ]
        ELSE IF lastDash > lastIndexBroken THEN
            [ kind            |-> "dash",
              strWidth        |-> getWidth(o, Flatten(JsSlice(tempArr, lastIndexBroken + 1, lastSpace))),
              tempArr         |-> Splice1(tempArr, lastDash, <<"-", BR>>),
              lastIndexBroken |-> lastDash,
              newCharIndex    |-> lastDash + 1 ]
        ELSE
            [ kind            |-> "hard",
              strWidth        |-> getWidth(o, Flatten(JsSlice(
                                      Splice1(tempArr, n - 1, <<BR, c.text[i + 1]>>),
                                      lastIndexBroken + 1, n - 1))),
              tempArr         |-> Splice1(tempArr, n - 1, <<BR, c.text[i + 1]>>),
              lastIndexBroken |-> n - 2,
              newCharIndex    |-> i ]

\* lines 513-539: the break chosen when the running width exceeds maxWidth at index i
breakAt(o, c, tempArr, lastIndexBroken, i) ==
    LET n         == Len(tempArr)
        lastSpace == LastIndexOf(c.text, n, " ")
        lastDash  == LastIndexOf(c.text, n, "-")
    IN  IF lastSpace > lastIndexBroken THEN
            [ kind            |-> "space",
              strWidth        |-> getWidth(o, Flatten(JsSlice(tempArr, lastIndexBroken + 1, lastSpace))),
              tempArr         |-> Splice1(tempArr, lastSpace, <<BR>>),
              lastIndexBroken |-> lastSpace,
              newCharIndex    |-> lastSpace + 1 ]
        ELSE IF lastDash > lastIndexBroken THEN
            [ kind            |-> "dash",
              strWidth        |-> getWidth(o, Flatten(JsSlice(tempArr, lastIndexBroken + 1, lastSpace))),
              tempArr         |-> IF lastDash = n - 1
                                  THEN Splice1(tempArr, lastDash, <<BR, "-">>)
                                  ELSE Splice1(tempArr, lastDash, <<"-", BR>>),
              lastIndexBroken |-> lastDash,
              newCharIndex    |-> lastDash + 1 ]
        ELSE
            [ kind            |-> "hard",
              strWidth        |-> getWidth(o, Flatten(JsSlice(
                                      Splice1(tempArr, n - 1, <<BR, c.text[i + 1]>>),
                                      lastIndexBroken + 1, n - 1))),
              tempArr         |-> Splice1(tempArr, n - 1, <<BR, c.text[i + 1]>>),
              lastIndexBroken |-> n - 2,
              newCharIndex    |-> i ]

\* what is recorded of a break: its kind, the index examined, the array before and
\* after, lastIndexBroken before and after, the width taken for the finished line,
\* the array and the running width the next line starts with
breakEvent(st, b) ==
    [kind |-> b.kind, i |-> st.i, before |-> st.tempArr, after |-> b.tempArr,
     prev |-> st.lastIndexBroken, at |-> b.lastIndexBroken,
     lineWidth |-> b.strWidth, carried |-> b.tempArr, running |-> 0]

\* carryExtend taking the pre-filled characters from the start of the new line
carryExtendFromNewLine(c, tempArr, newCharIndex, nearestChar) ==
    tempArr \o [j \in 1..Len(Substr(c.text, newCharIndex, nearestChar)) |->
                    <<Substr(c.text, newCharIndex, nearestChar)[j]>>]

\* lines 555-560: tempArr.concat(text.substr(tempArr.length, ...).split(''))
carryExtend(c, tempArr, newCharIndex, nearestChar) ==
    tempArr \o [j \in 1..Len(Substr(c.text, Len(tempArr),
                                     newCharIndex + nearestChar - Len(tempArr))) |->
                    <<Substr(c.text, Len(tempArr),
                             newCharIndex + nearestChar - Len(tempArr))[j]>>]

\* wrapCarry that does not record the break in lastIndexBroken
wrapCarryKeepIndex(o, c, st, b, nearestChar) ==
    LET extend   == Len(b.tempArr) < b.newCharIndex + nearestChar
        extended == carryExtend(c, b.tempArr, b.newCharIndex, nearestChar)
    IN  [st EXCEPT !.i = (IF extend THEN Len(extended) - 1 ELSE st.i) + 1,
                   !.tempArr = IF extend THEN extended ELSE b.tempArr,
                   !.strWidth = getWidth(o, Substr(c.text, b.newCharIndex,
                                                   IF nearestChar = 0 THEN 1 ELSE nearestChar)),
                   !.strHeight = @ + c.lineHeight,
                   !.trimStr = <<>>,
                   !.firstOver = -1,
                   !.maxStrWidth = MaxNum(@, b.strWidth),
                   !.breaks = Append(@, [breakEvent(st, b) EXCEPT
                                 !.carried = IF extend THEN extended ELSE b.tempArr,
                                 !.running = getWidth(o, Substr(c.text, b.newCharIndex,
                                                 IF nearestChar = 0 THEN 1 ELSE nearestChar))]),
                   !.m = @ + 2]

\* lines 548-562: the new line starts with what getNearestBreakIndex pre-fills
wrapCarry(o, c, st, b, nearestChar) ==
    LET extend   == Len(b.tempArr) < b.newCharIndex + nearestChar
        extended == carryExtend(c, b.tempArr, b.newCharIndex, nearestChar)
    IN  [st EXCEPT !.i = (IF extend THEN Len(extended) - 1 ELSE st.i) + 1,
                   !.tempArr = IF extend THEN extended ELSE b.tempArr,
                   !.strWidth = getWidth(o, Substr(c.text, b.newCharIndex,
                                                   IF nearestChar = 0 THEN 1 ELSE nearestChar)),
                   !.strHeight = @ + c.lineHeight,
                   !.trimStr = <<>>,
                   !.firstOver = -1,
                   !.lastIndexBroken = b.lastIndexBroken,
                   !.maxStrWidth = MaxNum(@, b.strWidth),
                   !.breaks = Append(@, [breakEvent(st, b) EXCEPT
                                 !.carried = IF extend THEN extended ELSE b.tempArr,
                                 !.running = getWidth(o, Substr(c.text, b.newCharIndex,
                                                 IF nearestChar = 0 THEN 1 ELSE nearestChar))]),
                   !.m = @ + 2]

\* lines 540-547: a line more; when it exceeds maxHeight, cut and return
wrapBroken(o, c, st, b) ==
    IF GT(st.strHeight + c.lineHeight, c.maxHeight) THEN
        [st EXCEPT !.done = TRUE, !.m = @ + 1,
                   !.tempArr = b.tempArr,
                   !.strHeight = @ + c.lineHeight,
                   !.lastIndexBroken = b.lastIndexBroken,
                   !.breaks = Append(@, breakEvent(st, b)),
                   !.sl = [@ EXCEPT !.text = fastTrim(st.trimStr) \o c.ellipsesStr,
                                    !.hasTooltext = TRUE,
                                    !.tooltext = st.sl.oriText,
                                    !.width = c.maxWidth,
                                    !.height = st.strHeight]]
    ELSE wrapCarry(o, c, st, b,
            getNearestBreakIndex(Substr(c.text, b.newCharIndex, c.len), c.maxWidthWithEll, o))

\* lines 512-539: the line exceeds maxWidth: break it
wrapStep(o, c, st) ==
    IF GT(st.strWidth, c.maxWidthWithEll) /\ GT(st.strWidth, c.maxWidth)
    THEN wrapBroken(o, c, st, breakAt(o, c, st.tempArr, st.lastIndexBroken, st.i))
    ELSE [st EXCEPT !.i = @ + 1]

RECURSIVE wrapLoop(_, _, _)
wrapLoop(o, c, st) ==
    IF st.done THEN st
    ELSE IF st.i >= c.len THEN
        [st EXCEPT !.maxStrWidth = MaxNum(@, st.strWidth),
                   !.sl = [@ EXCEPT !.text = Flatten(st.tempArr),
                                    !.width = MaxNum(st.maxStrWidth, st.strWidth),
                                    !.height = st.strHeight]]
    ELSE wrapLoop(o, c,
            wrapStep(o, c,
                loopAdd(c, st, charWidth(o, st.cache, c.text[st.i + 1], c.detailObj, TRUE))))

(***************************************************************************)
(* getSmartText on plain text (no markup; a browser with a document).      *)
(***************************************************************************)
Ellipsis == <<".", ".", ".">>

UndefinedStr == <<"u", "n", "d", "e", "f", "i", "n", "e", "d">>

\* fitStart degrading the ellipsis from three dots to one dot at once
fitStartNoTwoDots(o, text, maxWidth, cache) ==
    LET k          == o._containerObj
        showNo     == o._showNoEllipses
        withEll    == IF showNo THEN maxWidth ELSE maxWidth - ellipsesWidth(k)
        hasFirst   == text # <<>>
        tempChar   == IF hasFirst THEN text[1] ELSE Undef
        measured   == IF hasFirst THEN getWidth(o, <<tempChar>>) ELSE getWidth(o, UndefinedStr)
        inCache    == tempChar \in DOMAIN cache
        minWidth   == IF inCache THEN cache[tempChar] ELSE measured
        cache1     == IF inCache THEN cache ELSE MapPut(cache, tempChar, measured)
        m          == IF inCache THEN 0 ELSE 1
        one        == maxWidth - dotWidth(k)
    IN  IF GT(withEll, minWidth) THEN
            [ zero |-> FALSE, cache |-> cache1, m |-> m, maxWidthWithEll |-> withEll,
              ellipsesStr |-> IF showNo THEN <<>> ELSE Ellipsis,
              prefix |-> Substr(text, 0, getNearestBreakIndex(text, withEll, o)) ]
        ELSE IF GT(minWidth, maxWidth) THEN
            [ zero |-> TRUE, cache |-> cache1, m |-> m, maxWidthWithEll |-> withEll,
              ellipsesStr |-> IF showNo THEN <<>> ELSE Ellipsis, prefix |-> <<>> ]
        ELSE IF ~showNo THEN
            [ zero |-> FALSE, cache |-> cache1, m |-> m,
              maxWidthWithEll |-> IF GT(one, minWidth) THEN one ELSE 0,
              ellipsesStr |-> IF GT(one, minWidth) THEN <<".">> ELSE <<>>,
              prefix |-> <<>> ]
        ELSE
            [ zero |-> FALSE, cache |-> cache1, m |-> m, maxWidthWithEll |-> withEll,
              ellipsesStr |-> <<>>, prefix |-> <<>> ]

\* lines 406-449: the ellipsis budget, its degradation and the pre-filled prefix
fitStart(o, text, maxWidth, cache) ==
    LET k          == o._containerObj
        showNo     == o._showNoEllipses
        withEll    == IF showNo THEN maxWidth ELSE maxWidth - ellipsesWidth(k)
        hasFirst   == text # <<>>
        tempChar   == IF hasFirst THEN text[1] ELSE Undef
        measured   == IF hasFirst THEN getWidth(o, <<tempChar>>) ELSE getWidth(o, UndefinedStr)
        inCache    == tempChar \in DOMAIN cache
        minWidth   == IF inCache THEN cache[tempChar] ELSE measured
        cache1     == IF inCache THEN cache ELSE MapPut(cache, tempChar, measured)
        m          == IF inCache THEN 0 ELSE 1
        two        == maxWidth - 2 * dotWidth(k)
        one        == maxWidth - dotWidth(k)
    IN  IF GT(withEll, minWidth) THEN
            [ zero |-> FALSE, cache |-> cache1, m |-> m, maxWidthWithEll |-> withEll,
              ellipsesStr |-> IF showNo THEN <<>> ELSE Ellipsis,
              prefix |-> Substr(text, 0, getNearestBreakIndex(text, withEll, o)) ]
        ELSE IF GT(minWidth, maxWidth) THEN
            [ zero |-> TRUE, cache |-> cache1, m |-> m, maxWidthWithEll |-> withEll,
              ellipsesStr |-> IF showNo THEN <<>> ELSE Ellipsis, prefix |-> <<>> ]
        ELSE IF ~showNo THEN
            [ zero |-> FALSE, cache |-> cache1, m |-> m,
              maxWidthWithEll |-> IF GT(two, minWidth) THEN two
                                  ELSE IF GT(one, minWidth) THEN one ELSE 0,
              ellipsesStr |-> IF GT(two, minWidth) THEN <<".", ".">>
                              ELSE IF GT(one, minWidth) THEN <<".">> ELSE <<>>,
              prefix |-> <<>> ]
        ELSE
            [ zero |-> FALSE, cache |-> cache1, m |-> m, maxWidthWithEll |-> withEll,
              ellipsesStr |-> <<>>, prefix |-> <<>> ]

\* what the loops only read
fitContext(norm, maxWidth, maxHeight, lineHeight, detailObj, fs) ==
    [ text |-> norm, len |-> Len(norm), maxWidth |-> maxWidth,
      maxHeight |-> maxHeight, maxWidthWithEll |-> fs.maxWidthWithEll,
      ellipsesStr |-> fs.ellipsesStr, lineHeight |-> lineHeight,
      detailObj |-> detailObj ]

\* lines 448-449 and the initial values of the locals (326-342)
fitState(o, sl, lineHeight, m, fs) ==
    [ i |-> Len(fs.prefix),
      tempArr |-> [j \in 1..Len(fs.prefix) |-> <<fs.prefix[j]>>],
      strWidth |-> getWidth(o, fs.prefix),
      strHeight |-> lineHeight,
      trimStr |-> <<>>,
      lastIndexBroken |-> -1,
      maxStrWidth |-> 0,
      breaks |-> <<>>,
      firstOver |-> -1,
      iters |-> <<>>,
      ellipsesStr |-> fs.ellipsesStr,
      budget |-> fs.maxWidthWithEll,
      cache |-> fs.cache,
      m |-> m + fs.m + 1,
      sl |-> sl,
      done |-> FALSE ]

\* what a loop returned
fitResult(o, noWrap, fin) ==
    [o |-> [o EXCEPT !.charCaches[o._cache] = fin.cache], kind |-> "result",
     sl |-> fin.sl,
     path |-> IF fin.sl.hasTooltext THEN "truncated"
              ELSE IF noWrap THEN "nowrap" ELSE "wrapped",
     m |-> fin.m, breaks |-> fin.breaks,
     cut |-> [firstOver |-> fin.firstOver, ellipsesStr |-> fin.ellipsesStr,
              budget |-> fin.budget, strWidth |-> fin.strWidth,
              iters |-> fin.iters]]

\* fitText without the check minWidth > maxWidth of lines 426-431
fitTextNoFirstCheck(ori, sl, norm, maxWidth, maxHeight, lineHeight, noWrap, fs) ==
    IF noWrap THEN
        fitResult(ori.o, noWrap,
            noWrapLoop(ori.o,
                       fitContext(norm, maxWidth, maxHeight, lineHeight, ori.detailObj, fs),
                       fitState(ori.o, sl, lineHeight, ori.m, fs)))
    ELSE
        fitResult(ori.o, noWrap,
            wrapLoop(ori.o,
                     fitContext(norm, maxWidth, maxHeight, lineHeight, ori.detailObj, fs),
                     fitState(ori.o, sl, lineHeight, ori.m, fs)))

\* lines 422-573: the first character, then the loop
fitText(ori, sl, norm, maxWidth, maxHeight, lineHeight, noWrap, fs) ==
    IF fs.zero THEN
        [o |-> [ori.o EXCEPT !.charCaches[ori.o._cache] = fs.cache], kind |-> "result",
         sl |-> [sl EXCEPT !.text = <<>>, !.width = 0, !.height = 0,
                           !.oriTextWidth = 0, !.oriTextHeight = 0],
         path |-> "firstChar", m |-> ori.m + fs.m, breaks |-> <<>>, cut |-> NoCut]
    ELSE IF noWrap THEN
        fitResult(ori.o, noWrap,
            noWrapLoop(ori.o,
                       fitContext(norm, maxWidth, maxHeight, lineHeight, ori.detailObj, fs),
                       fitState(ori.o, sl, lineHeight, ori.m, fs)))
    ELSE
        fitResult(ori.o, noWrap,
            wrapLoop(ori.o,
                     fitContext(norm, maxWidth, maxHeight, lineHeight, ori.detailObj, fs),
                     fitState(ori.o, sl, lineHeight, ori.m, fs)))

\* fitSized without the check lineHeight > maxHeight of lines 397-402
fitSizedNoLineCheck(sl0, text, maxWidth, maxHeight, lineHeight, noWrap, ori) ==
    IF ori.kind = "raise" THEN
        [o |-> ori.o, kind |-> "raise", sl |-> NoLabel, path |-> "none", m |-> ori.m,
         breaks |-> <<>>, cut |-> NoCut]
    ELSE IF LE(ori.height, maxHeight) /\ LE(ori.width, maxWidth) THEN
        [o |-> ori.o, kind |-> "result",
         sl |-> [sl0 EXCEPT !.oriTextWidth = ori.width, !.oriTextHeight = ori.height,
                            !.width = ori.width, !.height = ori.height],
         path |-> "fast", m |-> ori.m, breaks |-> <<>>, cut |-> NoCut]
    ELSE
        fitText(ori, [sl0 EXCEPT !.oriTextWidth = ori.width, !.oriTextHeight = ori.height],
                Normalize(text), maxWidth, maxHeight, lineHeight, noWrap,
                fitStart(ori.o, Normalize(text), maxWidth, ori.o.charCaches[ori.o._cache]))

\* lines 381-403: the size of the whole text, the fast path, lineHeight > maxHeight
fitSized(sl0, text, maxWidth, maxHeight, lineHeight, noWrap, ori) ==
    IF ori.kind = "raise" THEN
        [o |-> ori.o, kind |-> "raise", sl |-> NoLabel, path |-> "none", m |-> ori.m,
         breaks |-> <<>>, cut |-> NoCut]
    ELSE IF LE(ori.height, maxHeight) /\ LE(ori.width, maxWidth) THEN
        [o |-> ori.o, kind |-> "result",
         sl |-> [sl0 EXCEPT !.oriTextWidth = ori.width, !.oriTextHeight = ori.height,
                            !.width = ori.width, !.height = ori.height],
         path |-> "fast", m |-> ori.m, breaks |-> <<>>, cut |-> NoCut]
    ELSE IF GT(lineHeight, maxHeight) THEN
        [o |-> ori.o, kind |-> "result",
         sl |-> [sl0 EXCEPT !.text = <<>>, !.width = 0, !.height = 0,
                            !.oriTextWidth = 0, !.oriTextHeight = 0],
         path |-> "lineHeight", m |-> ori.m, breaks |-> <<>>, cut |-> NoCut]
    ELSE
        fitText(ori, [sl0 EXCEPT !.oriTextWidth = ori.width, !.oriTextHeight = ori.height],
                Normalize(text), maxWidth, maxHeight, lineHeight, noWrap,
                fitStart(ori.o, Normalize(text), maxWidth, ori.o.charCaches[ori.o._cache]))

\* lines 366-368: if (maxHeight === lineHeight) maxHeight *= 1.2
inflated(maxHeight, lineHeight) ==
    IF maxHeight = lineHeight THEN (maxHeight * 6) \div 5 ELSE maxHeight

getSmartText(o, text, maxWidth, maxHeight, noWrap) ==
    IF ~o._init THEN
        [o |-> o, kind |-> "false", sl |-> NoLabel, path |-> "none", m |-> 0, breaks |-> <<>>, cut |-> NoCut]
    ELSE IF o._containerObj = Undef THEN
        \* sCont.ellipsesWidth on an undefined sCont
        [o |-> o, kind |-> "raise", sl |-> NoLabel, path |-> "none", m |-> 0, breaks |-> <<>>, cut |-> NoCut]
    ELSE IF o._container = Undef THEN
        [o |-> o, kind |-> "result",
         sl |-> [SmartLabel(text, maxWidth, maxHeight) EXCEPT !.error = TRUE],
         path |-> "error", m |-> 0, breaks |-> <<>>, cut |-> NoCut]
    ELSE
        fitSized(SmartLabel(text, maxWidth, maxHeight), text, maxWidth,
                 inflated(maxHeight, LineHeight(o._lineHeight)), LineHeight(o._lineHeight),
                 noWrap, getOriSize(o, text, TRUE))

(***************************************************************************)
(* setStyle, useEllipsesOnOverflow, dispose and the constructor.  got is   *)
(* what this._containerManager.get(style) returns: TRUE for the context    *)
(* of the style, FALSE for undefined.                                      *)
(***************************************************************************)
\* setStyle whose early return does not look at _styleNotSet
setStyleNoRetry(o, styleArg, got) ==
    LET style == IF styleArg = Undef THEN o.style ELSE styleArg
        key   == CtxKeyOf(style)
    IN  IF ~o._init THEN [o |-> o, kind |-> "this"]
        ELSE IF styleArg = o.style THEN [o |-> o, kind |-> "undefined"]
        ELSE IF ~o._containerManager THEN
            [o |-> [o EXCEPT !.style = style], kind |-> "raise"]
        ELSE IF got THEN
            [o |-> [o EXCEPT !.style = style,
                             !._containerObj = key,
                             !._container = key,
                             !._context = key,
                             !._cache = key,
                             !._lineHeight = key,
                             !._styleNotSet = FALSE],
             kind |-> "this"]
        ELSE
            [o |-> [o EXCEPT !.style = style,
                             !._containerObj = Undef,
                             !._styleNotSet = TRUE],
             kind |-> "this"]

setStyle(o, styleArg, got) ==
    LET style == IF styleArg = Undef THEN o.style ELSE styleArg
        key   == CtxKeyOf(style)
    IN  IF ~o._init THEN [o |-> o, kind |-> "this"]
        ELSE IF styleArg = o.style /\ ~o._styleNotSet THEN [o |-> o, kind |-> "undefined"]
        ELSE IF ~o._containerManager THEN
            \* this._containerManager.get on an undefined manager
            [o |-> [o EXCEPT !.style = style], kind |-> "raise"]
        ELSE IF got THEN
            [o |-> [o EXCEPT !.style = style,
                             !._containerObj = key,
                             !._container = key,
                             !._context = key,
                             !._cache = key,
                             !._lineHeight = key,
                             !._styleNotSet = FALSE],
             kind |-> "this"]
        ELSE
            [o |-> [o EXCEPT !.style = style,
                             !._containerObj = Undef,
                             !._styleNotSet = TRUE],
             kind |-> "this"]

useEllipsesOnOverflow(o, useEllipses) ==
    IF ~o._init THEN [o |-> o, kind |-> "this"]
    ELSE [o |-> [o EXCEPT !._showNoEllipses = ~useEllipses], kind |-> "this"]

dispose(o) ==
    IF ~o._init THEN [o |-> o, kind |-> "this"]
    ELSE [o |-> [o EXCEPT !._container = Undef,
                          !._context = Undef,
                          !._cache = Undef,
                          !._containerManager = FALSE,
                          !._containerObj = Undef,
                          !.id = Undef,
                          !.style = Undef,
                          !._showNoEllipses = FALSE,
                          !.charCaches = [k \in CtxKeys |-> EmptyMap],
                          !.disposed = TRUE],
          kind |-> "this"]

\* isFinite(max = options.maxCacheLimit) ? max : slLib.maxDefaultCacheLimit
cacheLimitOf(maxCacheLimit) == IF IsNum(maxCacheLimit) THEN maxCacheLimit ELSE DefaultCacheLimit

\* new SmartLabelManager(id, container, useEllipses, options) on the store st and
\* the instances ins; a constructor that returns early leaves a bare object
construct(st, ins, id, useEllipses, maxCacheLimit, got) ==
    LET prevInstance == st[id]
        ins1 == IF prevInstance # 0
                THEN [ins EXCEPT ![prevInstance] = dispose(ins[prevInstance]).o]
                ELSE ins
        this == [NewObject EXCEPT !.id = id,
                                  !._containerManager = TRUE,
                                  !._showNoEllipses = ~useEllipses,
                                  !._init = TRUE,
                                  !.style = "empty",
                                  !.maxCacheLimit = cacheLimitOf(maxCacheLimit)]
    IN  IF id = Undef THEN [store |-> st, insts |-> Append(ins, NewObject)]
        ELSE [store |-> [st EXCEPT ![id] = Len(ins) + 1],
              insts |-> Append(ins1, setStyle(this, Undef, got).o)]

(***************************************************************************)
(* The state and the calls.                                                *)
(***************************************************************************)
Ids == {"id1", "id2"}

NoArgs == [text |-> <<>>, maxWidth |-> 0, maxHeight |-> 0, noWrap |-> FALSE]

NoRequest == [text |-> <<>>, maxWidth |-> 0, maxHeight |-> 0, noWrap |-> FALSE, style |-> Undef]

NoCall == [valid |-> FALSE, inst |-> 0, a |-> NoArgs, kind |-> "none", sl |-> NoLabel]

\* what the instance was when the call was made
Pre(inst) ==
    IF inst \in 1..Len(insts)
    THEN [init |-> insts[inst]._init, disposed |-> insts[inst].disposed,
          styleNotSet |-> insts[inst]._styleNotSet, style |-> insts[inst].style]
    ELSE [init |-> FALSE, disposed |-> FALSE, styleNotSet |-> FALSE, style |-> Undef]

\* kind: "this", "false", "undefined", "size", "result" (what was returned) or "raise";
\* m: the number of times the call measured; changed: whether it changed the instance;
\* style, got: the argument of setStyle and what the container manager had for it;
\* cut: the ellipsis budget of the loop, the index that first exceeded it, the final width
Ret(op, inst, kind) ==
    [op |-> op, inst |-> inst, kind |-> kind, pre |-> Pre(inst), a |-> NoArgs,
     sl |-> NoLabel, width |-> Null, height |-> Null, path |-> "none", m |-> 0,
     breaks |-> <<>>, cut |-> NoCut, changed |-> FALSE, style |-> Undef, got |-> FALSE]

Construct(ids, limits, gots) ==
    \E id \in ids, useEllipses \in BOOLEAN, maxCacheLimit \in limits, got \in gots :
        LET r == construct(store, insts, id, useEllipses, maxCacheLimit, got)
        IN  /\ Len(insts) < MaxInst
            /\ store' = r.store
            /\ insts' = r.insts
            /\ ret' = [Ret("new", Len(insts) + 1, "this") EXCEPT !.changed = TRUE]
            /\ last' = IF id # Undef /\ store[id] = last.inst THEN NoCall ELSE last
            /\ prev' = IF id # Undef /\ store[id] = last.inst THEN NoCall ELSE prev
            /\ UNCHANGED <<args, nbiSlack>>

SetStyle(styles, gots) ==
    \E i \in 1..Len(insts), style \in styles, got \in gots :
        LET r == setStyle(insts[i], style, got)
        IN  /\ insts' = [insts EXCEPT ![i] = r.o]
            /\ ret' = [Ret("setStyle", i, r.kind) EXCEPT !.changed = (r.o # insts[i]),
                                                         !.style = style, !.got = got]
            /\ last' = IF last.inst = i THEN NoCall ELSE last
            /\ prev' = IF last.inst = i THEN NoCall ELSE prev
            /\ UNCHANGED <<store, args, nbiSlack>>

UseEllipsesOnOverflow ==
    \E i \in 1..Len(insts), useEllipses \in BOOLEAN :
        LET r == useEllipsesOnOverflow(insts[i], useEllipses)
        IN  /\ insts' = [insts EXCEPT ![i] = r.o]
            /\ ret' = [Ret("useEllipsesOnOverflow", i, r.kind) EXCEPT !.changed = (r.o # insts[i])]
            /\ last' = IF last.inst = i THEN NoCall ELSE last
            /\ prev' = IF last.inst = i THEN NoCall ELSE prev
            /\ UNCHANGED <<store, args, nbiSlack>>

Dispose ==
    \E i \in 1..Len(insts) :
        LET r == dispose(insts[i])
        IN  /\ insts' = [insts EXCEPT ![i] = r.o]
            /\ ret' = [Ret("dispose", i, r.kind) EXCEPT !.changed = (r.o # insts[i])]
            /\ last' = IF last.inst = i THEN NoCall ELSE last
            /\ prev' = IF last.inst = i THEN NoCall ELSE prev
            /\ UNCHANGED <<store, args, nbiSlack>>

GetOriSize(texts) ==
    \E i \in 1..Len(insts), text \in texts, detailedCalculationFlag \in BOOLEAN :
      \E r \in {getOriSize(insts[i], text, detailedCalculationFlag)} :
            /\ insts' = [insts EXCEPT ![i] = r.o]
            /\ ret' = [Ret("getOriSize", i, r.kind) EXCEPT
                            !.a = [NoArgs EXCEPT !.text = text, !.noWrap = detailedCalculationFlag],
                            !.width = r.width, !.height = r.height, !.m = r.m,
                            !.changed = (r.o # insts[i])]
            /\ UNCHANGED <<store, last, prev, args, nbiSlack>>

callGetSmartText(i, a) ==
    \E r \in {getSmartText(insts[i], a.text, a.maxWidth, a.maxHeight, a.noWrap)} :
        /\ insts' = [insts EXCEPT ![i] = r.o]
        /\ ret' = [Ret("getSmartText", i, r.kind) EXCEPT
                        !.a = a, !.sl = r.sl, !.path = r.path, !.m = r.m,
                        !.breaks = r.breaks, !.cut = r.cut,
                        !.changed = (r.o # insts[i])]
        /\ last' = [valid |-> TRUE, inst |-> i, a |-> a, kind |-> r.kind, sl |-> r.sl]
        /\ prev' = IF last.inst = i THEN last ELSE NoCall
        /\ UNCHANGED <<store, args, nbiSlack>>

GetSmartText(texts, widths, heights) ==
    \E i \in 1..Len(insts), text \in texts, maxWidth \in widths, maxHeight \in heights,
       noWrap \in BOOLEAN :
        callGetSmartText(i, [text |-> text, maxWidth |-> maxWidth,
                             maxHeight |-> maxHeight, noWrap |-> noWrap])

(***************************************************************************)
(* Spec: any callers, any instances.  Instances are created, restyled,     *)
(* measured against and disposed in any order, MaxSteps calls in all.      *)
(***************************************************************************)
LifeTexts == {<<"b", " ", "b">>}

LifeWidths == {Px(3)}

LifeHeights == {Px(10)}

Init ==
    /\ store = [id \in Ids |-> 0]
    /\ insts = <<>>
    /\ ret = Ret("none", 0, "none")
    /\ last = NoCall
    /\ prev = NoCall
    /\ args = NoRequest
    /\ nbiSlack = 0
    /\ steps = 0

Step == steps < MaxSteps /\ steps' = steps + 1

LifeConstruct == Step /\ Construct(Ids \cup {Undef}, {NaN}, BOOLEAN)

LifeSetStyle == Step /\ SetStyle({Undef, "s1", "s2"}, BOOLEAN)

LifeUseEllipses == Step /\ UseEllipsesOnOverflow

LifeDispose == Step /\ Dispose

LifeGetOriSize == Step /\ GetOriSize(LifeTexts)

LifeGetSmartText == Step /\ GetSmartText(LifeTexts, LifeWidths, LifeHeights)

Next ==
    \/ LifeConstruct
    \/ LifeSetStyle
    \/ LifeUseEllipses
    \/ LifeDispose
    \/ LifeGetOriSize
    \/ LifeGetSmartText

Spec == Init /\ [][Next]_vars

(***************************************************************************)
(* Claims about the life cycle, checked under Spec.                        *)
(***************************************************************************)
Methods == {"setStyle", "useEllipsesOnOverflow", "getSmartText", "getOriSize", "dispose"}

\* C6: once dispose() has run on an initialized instance, _init is false and every
\* later call on it measures nothing, changes nothing, raises nothing and returns
\* no metrics.
C6_DisposedIsInert ==
    /\ \A i \in 1..Len(insts) : insts[i].disposed => ~insts[i]._init
    /\ (ret.op \in Methods /\ ret.pre.disposed) =>
          /\ ret.kind \notin {"raise", "size", "result"}
          /\ ~ret.changed
          /\ ret.m = 0

\* C7: on an instance whose construction failed or that has been disposed, every
\* operation returns a falsy value (false or undefined) and raises nothing.
C7_FalsyOnUninitialized ==
    (ret.op \in Methods /\ (~ret.pre.init \/ ret.pre.disposed)) =>
        ret.kind \in {"false", "undefined"}

\* C8: when the container manager returned no context for the current style,
\* getSmartText raises nothing and returns a result that carries the error marker
\* and no metrics, without measuring.
C8_ErrorMarkerWithoutContext ==
    (ret.op = "getSmartText" /\ ret.pre.init /\ ~ret.pre.disposed /\ ret.pre.styleNotSet) =>
        /\ ret.kind = "result"
        /\ ret.sl.error
        /\ ret.sl.width = Null
        /\ ret.m = 0

\* C9: a live instance never holds the style of one key with the context of another:
\* container, basic cache and line height are those of the context of this.style,
\* or no context is bound at all.
C9_StyleAndContextAgree ==
    \A i \in 1..Len(insts) :
        (insts[i]._init /\ ~insts[i].disposed) =>
            \/ /\ insts[i]._container = Undef
               /\ insts[i]._cache = Undef
               /\ insts[i]._lineHeight = Undef
            \/ /\ insts[i]._container = CtxKeyOf(insts[i].style)
               /\ insts[i]._cache = CtxKeyOf(insts[i].style)
               /\ insts[i]._lineHeight = CtxKeyOf(insts[i].style)

\* C10: the store never maps an id to a disposed instance, and no two instances
\* that are not disposed were constructed with the same id.
C10_StoreHoldsLiveInstances ==
    /\ \A id \in Ids : store[id] # 0 => ~insts[store[id]].disposed
    /\ \A i, j \in 1..Len(insts) :
          (i # j /\ insts[i]._init /\ insts[j]._init
               /\ ~insts[i].disposed /\ ~insts[j].disposed) => insts[i].id # insts[j].id

(***************************************************************************)
(* SpecCache: one instance with a small maxCacheLimit, measured again and  *)
(* again under two styles.                                                 *)
(***************************************************************************)
CacheTexts == {<<"a">>, <<"a", "i", "n", "i", "t">>, <<"b">>}

CacheFitTexts == {<<"b", "i">>}

CacheWidths == {Px(2)}

CacheHeights == {Px(10)}

InitCache ==
    \E maxCacheLimit \in 1..MaxCacheLimit :
        LET r == construct([id \in Ids |-> 0], <<>>, "id1", TRUE, maxCacheLimit, TRUE)
        IN  /\ store = r.store
            /\ insts = r.insts
            /\ ret = Ret("none", 0, "none")
            /\ last = NoCall
            /\ prev = NoCall
            /\ args = NoRequest
            /\ nbiSlack = 0
            /\ steps = 0

CacheStep == steps < MaxCacheCalls /\ steps' = steps + 1

CacheSetStyle == CacheStep /\ SetStyle({"s1", "s2"}, {TRUE})

CacheGetOriSize == CacheStep /\ GetOriSize(CacheTexts)

CacheGetSmartText == CacheStep /\ GetSmartText(CacheFitTexts, CacheWidths, CacheHeights)

NextCache ==
    \/ CacheSetStyle
    \/ CacheGetOriSize
    \/ CacheGetSmartText

SpecCache == InitCache /\ [][NextCache]_vars

(***************************************************************************)
(* Claims about the advanced cache, checked under SpecCache.               *)
(***************************************************************************)
Range(seq) == {seq[j] : j \in 1..Len(seq)}

\* C3: each time a call returns the advanced cache holds at most maxCacheLimit
\* entries, and every eviction so far removed the key that had entered the cache
\* earliest among the keys then present.
C3_CacheBoundAndFifo ==
    \A i \in 1..Len(insts) :
        /\ Cardinality(DOMAIN insts[i]._advancedCache) <= insts[i].maxCacheLimit
        /\ Len(insts[i]._advancedCacheKey) <= insts[i].maxCacheLimit
        /\ insts[i].fifo

\* C4: the ordered key list and the advanced cache hold exactly the same keys, and
\* no key occurs twice in the list.
C4_KeyListMatchesCache ==
    \A i \in 1..Len(insts) :
        /\ Range(insts[i]._advancedCacheKey) = DOMAIN insts[i]._advancedCache
        /\ Cardinality(Range(insts[i]._advancedCacheKey)) = Len(insts[i]._advancedCacheKey)

\* C5: two getSmartText calls on one instance with the same text, maxWidth, maxHeight
\* and noWrap, with no setStyle between them, return the same text, width, height,
\* isTruncated and tooltext, whatever the caches held at each call.
C5_SameCallSameResult ==
    (last.valid /\ prev.valid /\ last.inst = prev.inst /\ last.a = prev.a) =>
        /\ last.kind = prev.kind
        /\ last.sl.text = prev.sl.text
        /\ last.sl.width = prev.sl.width
        /\ last.sl.height = prev.sl.height
        /\ last.sl.isTruncated = prev.sl.isTruncated
        /\ last.sl.hasTooltext = prev.sl.hasTooltext
        /\ last.sl.tooltext = prev.sl.tooltext

(***************************************************************************)
(* SpecFit: one layout request.  An instance is constructed (the container *)
(* manager has no context for the empty style), the style of the request   *)
(* is set and getSmartText is called with the request's arguments, any     *)
(* number of times.                                                        *)
(***************************************************************************)
FitChars == {"b", " ", "-"}

FitTexts ==
    {t \in UNION {[1..n -> FitChars] : n \in 1..MaxTextLen} : t[1] # " "}

FitWidths == {Px(w) : w \in 1..MaxWidthPx}

FitHeights == {Px(10 * n) : n \in 1..MaxLines}

InitFit ==
    \E text \in FitTexts, maxWidth \in FitWidths, maxHeight \in FitHeights,
       noWrap \in BOOLEAN, useEllipses \in BOOLEAN, style \in {"s1", "s2"} :
      \E slack \in (IF noWrap THEN {0} ELSE 0..1) :
        LET r == construct([id \in Ids |-> 0], <<>>, "id1", useEllipses, NaN, FALSE)
        IN  /\ store = r.store
            /\ insts = r.insts
            /\ ret = Ret("none", 0, "none")
            /\ last = NoCall
            /\ prev = NoCall
            /\ args = [text |-> text, maxWidth |-> maxWidth, maxHeight |-> maxHeight,
                       noWrap |-> noWrap, style |-> style]
            /\ nbiSlack = slack
            /\ steps = 0

FitSetStyle == SetStyle({args.style}, {TRUE}) /\ UNCHANGED steps

FitGetSmartText ==
    /\ callGetSmartText(1, [text |-> args.text, maxWidth |-> args.maxWidth,
                            maxHeight |-> args.maxHeight, noWrap |-> args.noWrap])
    /\ UNCHANGED steps

NextFit ==
    \/ FitSetStyle
    \/ FitGetSmartText

SpecFit == InitFit /\ [][NextFit]_vars

\* The characters of a text that are shown: everything but spaces and breaks
RECURSIVE Shown(_)
Shown(text) ==
    IF text = <<>> THEN <<>>
    ELSE IF Head(text) \in {" ", BR} THEN Shown(Tail(text))
    ELSE <<Head(text)>> \o Shown(Tail(text))

\* A getSmartText call on a non-empty text has returned a result
FitReturned ==
    /\ ret.op = "getSmartText"
    /\ ret.kind = "result"
    /\ ret.a.text # <<>>

\* C1: for every non-empty text, maxWidth, maxHeight and noWrap the result of
\* getSmartText is no wider than maxWidth and no higher than maxHeight.
C1_ResultFitsTheBox ==
    FitReturned =>
        /\ LE(ret.sl.width, ret.a.maxWidth)
        /\ LE(ret.sl.height, ret.a.maxHeight)

\* C2: isTruncated is true exactly when the returned text does not show the
\* whole original text, in no-wrap and in wrap mode alike.
C2_TruncatedIffCut ==
    FitReturned =>
        (ret.sl.isTruncated <=> Shown(ret.sl.text) # Shown(ret.a.text))

\* The latest call is a getSmartText call that returned a result and repeats the
\* call made just before it on the same instance, with no setStyle in between
FitRepeated ==
    /\ ret.op = "getSmartText"
    /\ ret.kind = "result"
    /\ prev.valid
    /\ prev.inst = ret.inst
    /\ prev.a = ret.a
    /\ prev.kind = "result"

\* C11: a getSmartText call repeated with the same text, bounds and style after
\* a first call has warmed the caches does not measure at all, on the fast path
\* and on the wrap and truncate paths alike.
C11_RepeatedCallDoesNotMeasure ==
    FitRepeated => ret.m = 0

\* The step is a getSmartText call that returns a result for a text whose
\* unconstrained size, as getOriSize gives it before the call, is within the box
FastPathCall ==
    /\ ret'.op = "getSmartText"
    /\ ret'.kind = "result"
    /\ ret'.inst \in 1..Len(insts)
    /\ getOriSize(insts[ret'.inst], ret'.a.text, TRUE).kind = "size"
    /\ IsNum(getOriSize(insts[ret'.inst], ret'.a.text, TRUE).width)
    /\ getOriSize(insts[ret'.inst], ret'.a.text, TRUE).width <= ret'.a.maxWidth
    /\ getOriSize(insts[ret'.inst], ret'.a.text, TRUE).height <= ret'.a.maxHeight

\* C12: when the unconstrained height of the text is <= maxHeight and its
\* unconstrained width is <= maxWidth, getSmartText returns at once: the text
\* unchanged, isTruncated false, no tooltext, width = oriTextWidth = the
\* unconstrained width, height = oriTextHeight = the unconstrained height, and
\* the wrap/truncate loop is not entered (no break, no measurement beyond
\* those of getOriSize).
C12_FastPath ==
    [][FastPathCall =>
        /\ ret'.sl.text = ret'.a.text
        /\ ~ret'.sl.isTruncated
        /\ ~ret'.sl.hasTooltext
        /\ ret'.sl.width = getOriSize(insts[ret'.inst], ret'.a.text, TRUE).width
        /\ ret'.sl.oriTextWidth = ret'.sl.width
        /\ ret'.sl.height = getOriSize(insts[ret'.inst], ret'.a.text, TRUE).height
        /\ ret'.sl.oriTextHeight = ret'.sl.height
        /\ ret'.path = "fast"
        /\ ret'.breaks = <<>>
        /\ ret'.m = getOriSize(insts[ret'.inst], ret'.a.text, TRUE).m]_vars

\* a non-empty text was returned unchanged through the fast path, with its
\* width equal to maxWidth or below and its height within maxHeight
C12_Witness ==
    /\ FitReturned
    /\ ret.path = "fast"
    /\ ret.sl.text = ret.a.text
    /\ Len(ret.a.text) >= 2
    /\ ret.sl.width <= ret.a.maxWidth
    /\ ret.sl.height <= ret.a.maxHeight

\* The latest call is a getSmartText call on an instance with a context bound,
\* with maxHeight below the line height of that context
BelowLineHeight ==
    /\ ret.op = "getSmartText"
    /\ ret.inst \in 1..Len(insts)
    /\ insts[ret.inst]._init
    /\ insts[ret.inst]._containerObj # Undef
    /\ insts[ret.inst]._container # Undef
    /\ ret.a.maxHeight < LineHeight(insts[ret.inst]._lineHeight)

FirstCharTooWide ==
    /\ ret.op = "getSmartText"
    /\ ret.inst \in 1..Len(insts)
    /\ insts[ret.inst]._init
    /\ insts[ret.inst]._containerObj # Undef
    /\ insts[ret.inst]._container # Undef
    /\ Normalize(ret.a.text) # <<>>
    /\ OffsetWidth(<<Normalize(ret.a.text)[1]>>, insts[ret.inst]._container) > ret.a.maxWidth

C15_SetStyleReturnsThis ==
    ret.op = "setStyle" => ret.kind = "this"

\* The step is a setStyle call, on a live instance, with the style object that
\* is already active
SameStyleCall ==
    /\ ret'.op = "setStyle"
    /\ ret'.inst \in 1..Len(insts)
    /\ insts[ret'.inst]._init
    /\ ~insts[ret'.inst].disposed
    /\ ret'.style # Undef
    /\ ret'.style = insts[ret'.inst].style

\* C16: setStyle called with the style object that is already active is a
\* no-op while a context is bound: whatever the container manager would
\* answer, the instance (style, container, basic cache, line height, advanced
\* cache) is unchanged; when no context is bound because the previous fetch
\* returned undefined, the same call fetches again and binds the context the
\* manager returns.
C16_SameStyleIsNoOp ==
    [][SameStyleCall =>
        /\ ~insts[ret'.inst]._styleNotSet => insts' = insts
        /\ (insts[ret'.inst]._styleNotSet /\ ret'.got) =>
              /\ ~insts'[ret'.inst]._styleNotSet
              /\ insts'[ret'.inst]._containerObj = CtxKeyOf(ret'.style)
              /\ insts'[ret'.inst]._container = CtxKeyOf(ret'.style)
              /\ insts'[ret'.inst]._cache = CtxKeyOf(ret'.style)
              /\ insts'[ret'.inst]._lineHeight = CtxKeyOf(ret'.style)
        /\ (insts[ret'.inst]._styleNotSet /\ ~ret'.got) =>
              /\ insts'[ret'.inst]._styleNotSet
              /\ insts'[ret'.inst]._containerObj = Undef]_vars

\* the active style object was set again on a live instance whose previous
\* fetch had failed, and this time the context was bound
C16_Witness ==
    /\ ret.op = "setStyle"
    /\ ret.inst \in 1..Len(insts)
    /\ ret.pre.init /\ ~ret.pre.disposed /\ ret.pre.styleNotSet
    /\ ret.style \in {"s1", "s2"}
    /\ ret.pre.style = ret.style
    /\ ret.got
    /\ ret.changed
    /\ insts[ret.inst].style = ret.style
    /\ insts[ret.inst]._containerObj = CtxKeyOf(ret.style)
    /\ insts[ret.inst]._advancedCache # EmptyMap

\* C17: the size the advanced cache holds for a (text, style) key depends only
\* on the text and the style: whichever calls were made before (texts of other
\* lengths, detailed or non-detailed calls, other styles, evictions), the size
\* held under a key is the size that was stored under it the first time.
C17_CacheValueDependsOnKeyOnly ==
    \A i \in 1..Len(insts) :
        \A key \in DOMAIN insts[i]._advancedCache :
            (insts[i]._advancedCache[key].t = "str" /\ key \in DOMAIN insts[i].first) =>
                insts[i]._advancedCache[key] = insts[i].first[key]

\* A no-wrap getSmartText call has cut the text: the loop returned from its
\* truncation branch
NoWrapTruncated ==
    /\ FitReturned
    /\ ret.a.noWrap
    /\ ret.path = "truncated"

\* C18: when no-wrap getSmartText truncates, the returned text is the text
\* collected just before the first character that made the running width
\* exceed the ellipsis budget, trimmed, followed by the ellipsis string in use;
\* the tooltext is the original text and the height is one line height.  This
\* holds for every ellipsis budget, the budget 0 of a degraded ellipsis included.
C18_NoWrapTruncation ==
    NoWrapTruncated =>
        /\ ret.cut.firstOver >= 0
        /\ ret.sl.text = fastTrim(Substr(Normalize(ret.a.text), 0, ret.cut.firstOver))
                            \o ret.cut.ellipsesStr
        /\ ret.sl.tooltext = ret.a.text
        /\ ret.sl.height = LineHeight(insts[ret.inst]._lineHeight)

\* A no-wrap getSmartText call went through the whole string, and the running
\* width ended above the ellipsis budget but not above maxWidth
NoWrapSoftOverflow ==
    /\ FitReturned
    /\ ret.a.noWrap
    /\ ret.path \in {"nowrap", "truncated"}
    /\ ret.cut.firstOver >= 0
    /\ ret.cut.strWidth > ret.cut.budget
    /\ ret.cut.strWidth <= ret.a.maxWidth

\* C19: in no-wrap mode, when the string ends with the running width above the
\* ellipsis budget but not above maxWidth, getSmartText returns the whole
\* normalized text with no ellipsis and no tooltext, and the width of the
\* result is the running width, which is within maxWidth.
C19_NoWrapSoftOverflow ==
    NoWrapSoftOverflow =>
        /\ ret.sl.text = Normalize(ret.a.text)
        /\ ~ret.sl.hasTooltext
        /\ ret.sl.tooltext = <<>>
        /\ ret.sl.width = ret.cut.strWidth
        /\ LE(ret.sl.width, ret.a.maxWidth)

\* a text that did not pass the fast path went through the no-wrap loop with
\* its running width ending between the ellipsis budget and maxWidth
C19_Witness ==
    /\ NoWrapSoftOverflow
    /\ ret.path = "nowrap"
    /\ ret.cut.budget > 0
    /\ Len(ret.sl.text) >= 2
    /\ ret.sl.text = Normalize(ret.a.text)
    /\ ~ret.sl.hasTooltext

\* The index of the last element of a wrap array that holds a break marker, -1
\* when there is none: the previous break point
RECURSIVE LastBreakPoint(_, _)
LastBreakPoint(arr, n) ==
    IF n <= 0 THEN -1
    ELSE IF n <= Len(arr) /\ \E k \in 1..Len(arr[n]) : arr[n][k] = BR THEN n - 1
    ELSE LastBreakPoint(arr, n - 1)

\* The array a break must leave by the precedence space, hyphen, hard break:
\* e is the break, text the normalized text
ExpectedBreak(e, text) ==
    LET n         == e.i + 1
        previous  == LastBreakPoint(e.before, Len(e.before))
        lastSpace == LastIndexOf(text, n, " ")
        lastDash  == LastIndexOf(text, n, "-")
    IN  IF lastSpace > previous THEN Splice1(e.before, lastSpace, <<BR>>)
        ELSE IF lastDash > previous THEN
            Splice1(e.before, lastDash, IF lastDash = e.i THEN <<BR, "-">> ELSE <<"-", BR>>)
        ELSE Splice1(e.before, e.i, <<BR, text[e.i + 1]>>)

\* C20: in wrap mode, each time the running width exceeds maxWidth the break is
\* placed at the last space after the previous break point if there is one,
\* the space being replaced by the break marker; else at the last hyphen after
\* the previous break point, the marker before the hyphen when the hyphen is
\* the character just examined and after it otherwise; else immediately
\* before the current character.
C20_BreakPrecedence ==
    (FitReturned /\ ~ret.a.noWrap) =>
        \A k \in 1..Len(ret.breaks) :
            /\ Len(ret.breaks[k].before) = ret.breaks[k].i + 1
            /\ ret.breaks[k].after = ExpectedBreak(ret.breaks[k], Normalize(ret.a.text))

\* a wrap call broke its text more than once, at a hyphen that was the character
\* just examined and at a place of another kind
C20_Witness ==
    /\ FitReturned /\ ~ret.a.noWrap
    /\ Len(ret.breaks) >= 2
    /\ \E k \in 1..Len(ret.breaks) :
          /\ ret.breaks[k].kind = "dash"
          /\ ret.breaks[k].after[ret.breaks[k].i + 1] = <<BR, "-">>
    /\ \E k \in 1..Len(ret.breaks) : ret.breaks[k].kind = "space"

\* A getSmartText call in wrap mode went through the wrap loop
WrapLooped ==
    /\ FitReturned
    /\ ~ret.a.noWrap
    /\ ret.path \in {"wrapped", "truncated"}

\* C21: during one getSmartText call in wrap mode lastIndexBroken never
\* decreases from one iteration of the loop to the next, no space or hyphen
\* position at or before lastIndexBroken is used as a break point again, and the
\* loop index strictly increases, so that the loop ends for every finite text.
C21_WrapLoopProgress ==
    WrapLooped =>
        /\ \A k \in 1..(Len(ret.cut.iters) - 1) :
              /\ ret.cut.iters[k + 1].lastIndexBroken >= ret.cut.iters[k].lastIndexBroken
              /\ ret.cut.iters[k + 1].i > ret.cut.iters[k].i
        /\ Len(ret.cut.iters) <= Len(Normalize(ret.a.text))
        /\ \A k \in 1..Len(ret.breaks) :
              /\ ret.breaks[k].at >= ret.breaks[k].prev
              /\ ret.breaks[k].kind \in {"space", "dash"} =>
                    /\ ret.breaks[k].at > ret.breaks[k].prev
                    /\ \A j \in 1..(k - 1) : ret.breaks[k].at > ret.breaks[j].at

\* a wrap call broke its text twice or more, the second time after the first
\* break had moved lastIndexBroken, and went on iterating
C21_Witness ==
    /\ WrapLooped
    /\ Len(ret.breaks) >= 2
    /\ ret.breaks[1].kind = "space"
    /\ ret.breaks[2].kind \in {"space", "dash"}
    /\ Len(ret.cut.iters) >= 3
    /\ ret.cut.iters[Len(ret.cut.iters)].lastIndexBroken > ret.cut.iters[1].lastIndexBroken

\* lines 92-103: textToLines, the lines of a text, split at the break markers
RECURSIVE textToLines(_)
textToLines(text) ==
    IF \A k \in 1..Len(text) : text[k] # BR THEN <<text>>
    ELSE LET first == CHOOSE k \in 1..Len(text) :
                          text[k] = BR /\ \A j \in 1..(k - 1) : text[j] # BR
         IN  <<SubSeq(text, 1, first - 1)>> \o textToLines(SubSeq(text, first + 1, Len(text)))

\* A wrap call returned because the break just inserted exceeded maxHeight
WrapTruncated ==
    /\ WrapLooped
    /\ ret.path = "truncated"
    /\ ret.breaks # <<>>

\* C22: in wrap mode, when the break just inserted makes the cumulative height
\* exceed maxHeight, the call returns the text collected before the character
\* that exceeded the ellipsis budget on the last fitting line (earlier break
\* markers included, trimmed) followed by the ellipsis, with the original text
\* as tooltext, width maxWidth and height the cumulative height less one line
\* height; that height is the line height times the number of lines of the
\* returned text.
C22_WrapTruncation ==
    WrapTruncated =>
        /\ ret.cut.firstOver >= 0
        /\ ret.sl.text =
              fastTrim(Flatten(SubSeq(ret.breaks[Len(ret.breaks)].before, 1, ret.cut.firstOver)))
                  \o ret.cut.ellipsesStr
        /\ ret.sl.tooltext = ret.a.text
        /\ ret.sl.width = ret.a.maxWidth
        /\ ret.sl.height = Len(ret.breaks) * LineHeight(insts[ret.inst]._lineHeight)
        /\ ret.sl.height =
              LineHeight(insts[ret.inst]._lineHeight) * Len(textToLines(ret.sl.text))

\* The largest of the widths taken for the lines the first n breaks finished
RECURSIVE MaxLineWidth(_, _)
MaxLineWidth(breaks, n) ==
    IF n <= 0 THEN 0
    ELSE MaxNum(breaks[n].lineWidth, MaxLineWidth(breaks, n - 1))

\* A wrap call went through the whole string without exceeding maxHeight
WrapExhausted ==
    /\ WrapLooped
    /\ ret.path = "wrapped"

\* C23: in wrap mode, when the string is exhausted without exceeding maxHeight
\* the returned width is the largest width over the lines of the returned
\* text, where after each break of any kind (space, hyphen, hard) the width
\* taken for the finished line is the measured width of the text between the
\* previous break point and the new one, and the running width of the new line
\* is the width of the characters already consumed on it; the height is the
\* line height times the number of lines and isTruncated is false.
C23_WrappedWidthAndHeight ==
    WrapExhausted =>
        /\ \A k \in 1..Len(ret.breaks) :
              /\ ret.breaks[k].lineWidth =
                    getWidth(insts[ret.inst], textToLines(Flatten(ret.breaks[k].after))[k])
              /\ ret.breaks[k].running =
                    getWidth(insts[ret.inst], textToLines(Flatten(ret.breaks[k].carried))[k + 1])
        /\ ret.sl.width = MaxNum(MaxLineWidth(ret.breaks, Len(ret.breaks)), ret.cut.strWidth)
        /\ ret.sl.height =
              LineHeight(insts[ret.inst]._lineHeight) * Len(textToLines(ret.sl.text))
        /\ ~ret.sl.isTruncated

\* The ellipsis string by the order '...', '..', '.', '': the longest that leaves
\* more than the width of the first character
EllipsisFor(o, first, maxWidth) ==
    IF o._showNoEllipses THEN <<>>
    ELSE IF GT(maxWidth - ellipsesWidth(o._containerObj), getWidth(o, <<first>>))
         THEN <<".", ".", ".">>
    ELSE IF GT(maxWidth - 2 * dotWidth(o._containerObj), getWidth(o, <<first>>))
         THEN <<".", ".">>
    ELSE IF GT(maxWidth - dotWidth(o._containerObj), getWidth(o, <<first>>))
         THEN <<".">>
    ELSE <<>>

\* A getSmartText call has cut the text, in no-wrap or in wrap mode
Truncated ==
    /\ FitReturned
    /\ ret.path = "truncated"

CachedAnswer(r, entry) ==
    /\ r.kind = "size"
    /\ r.m = 0
    /\ r.width = entry.w
    /\ r.height = entry.h

\* C25: whenever the width entry for (text, style) is present in the advanced
\* cache, _calCharDimWithCache (and so getOriSize) returns the cached width and
\* height without touching the measurement primitive, in plain mode and in
\* repetition-correction mode, also when the correction entry of that character
\* has been evicted.
C25_CachedSizeWithoutMeasuring ==
    \A i \in 1..Len(insts) :
        \A text \in CacheTexts, calculateDifference \in BOOLEAN, length \in 1..2 :
            ( /\ insts[i]._init
              /\ cacheNameOf(insts[i], text) \in DOMAIN insts[i]._advancedCache
              /\ insts[i]._advancedCache[cacheNameOf(insts[i], text)].t = "str" )
            => CachedAnswer(calCharDimWithCache(insts[i], text, calculateDifference, length),
                            insts[i]._advancedCache[cacheNameOf(insts[i], text)])

(***************************************************************************)
(* getSmartText on a text with markup, in no-wrap mode (lines 576-748).    *)
(* text holds the visible characters, one span each; the markup leaves     *)
(* their geometry as the measuring function gives it, so that the right    *)
(* edge of the character at index i is the measured width of the text up   *)
(* to it.  The layout of the wrap loop (lines 654-709) is not modelled.    *)
(***************************************************************************)
\* lines 612-633: the first character, the ellipsis budget and its degradation
markupStart(o, first, maxWidth) ==
    LET k        == o._containerObj
        showNo   == o._showNoEllipses
        withEll  == IF showNo THEN maxWidth ELSE maxWidth - ellipsesWidth(k)
        minWidth == getWidth(o, <<first>>)
        two      == maxWidth - 2 * dotWidth(k)
        one      == maxWidth - dotWidth(k)
    IN  IF GT(minWidth, maxWidth) THEN
            [ zero |-> TRUE, maxWidthWithEll |-> withEll,
              ellipsesStr |-> IF showNo THEN <<>> ELSE Ellipsis ]
        ELSE IF GT(minWidth, withEll) /\ ~showNo THEN
            [ zero |-> FALSE,
              maxWidthWithEll |-> IF GT(two, minWidth) THEN two
                                  ELSE IF GT(one, minWidth) THEN one ELSE 0,
              ellipsesStr |-> IF GT(two, minWidth) THEN <<".", ".">>
                              ELSE IF GT(one, minWidth) THEN <<".">> ELSE <<>> ]
        ELSE
            [ zero |-> FALSE, maxWidthWithEll |-> withEll,
              ellipsesStr |-> IF showNo THEN <<>> ELSE Ellipsis ]

\* lines 639-652: the no-wrap loop; -1 stands for undefined
RECURSIVE markupNoWrapLoop(_, _, _, _, _)
markupNoWrapLoop(o, c, i, removeFromIndex, removeFromIndexForEllipses) ==
    IF i >= c.len THEN
        [removeFromIndex |-> removeFromIndex,
         removeFromIndexForEllipses |-> removeFromIndexForEllipses]
    ELSE IF GT(getWidth(o, SubSeq(c.text, 1, i + 1)), c.maxWidthWithEll) THEN
        IF GT(getWidth(o, c.text), c.maxWidth) THEN
            [removeFromIndex |-> i,
             removeFromIndexForEllipses |->
                 IF removeFromIndexForEllipses \in {-1, 0} THEN i
                 ELSE removeFromIndexForEllipses]
        ELSE markupNoWrapLoop(o, c, i + 1, removeFromIndex,
                              IF removeFromIndexForEllipses \in {-1, 0} THEN i
                              ELSE removeFromIndexForEllipses)
    ELSE markupNoWrapLoop(o, c, i + 1, removeFromIndex, removeFromIndexForEllipses)

\* lines 712-748: the characters removed, the ellipsis, the size of the container
markupResult(o, sl, c, fin) ==
    LET from == IF fin.removeFromIndexForEllipses \in {-1, 0}
                THEN fin.removeFromIndex ELSE fin.removeFromIndexForEllipses
        kept == SubSeq(c.text, 1, from)
    IN  IF fin.removeFromIndex # -1 /\ fin.removeFromIndex < c.len THEN
            [o |-> o, kind |-> "result",
             sl |-> [sl EXCEPT !.isTruncated = TRUE,
                               !.text = kept \o c.ellipsesStr,
                               !.hasTooltext = TRUE,
                               !.tooltext = c.text,
                               !.width = getWidth(o, kept),
                               !.height = OffsetHeight(o._container)],
             path |-> "truncated", m |-> 2, breaks |-> <<>>,
             cut |-> [NoCut EXCEPT !.firstOver = from, !.ellipsesStr = c.ellipsesStr,
                                   !.budget = c.maxWidthWithEll,
                                   !.strWidth = getWidth(o, c.text)]]
        ELSE
            [o |-> o, kind |-> "result",
             sl |-> [sl EXCEPT !.text = c.text,
                               !.width = getWidth(o, c.text),
                               !.height = OffsetHeight(o._container)],
             path |-> "nowrap", m |-> 2, breaks |-> <<>>,
             cut |-> [NoCut EXCEPT !.ellipsesStr = c.ellipsesStr,
                                   !.budget = c.maxWidthWithEll,
                                   !.strWidth = getWidth(o, c.text)]]

\* lines 610-652: the first character, then the no-wrap loop
markupFit(o, sl, norm, maxWidth, ms) ==
    IF ms.zero THEN
        [o |-> o, kind |-> "result",
         sl |-> [sl EXCEPT !.text = <<>>, !.width = 0, !.height = 0,
                           !.oriTextWidth = 0, !.oriTextHeight = 0],
         path |-> "firstChar", m |-> 2, breaks |-> <<>>, cut |-> NoCut]
    ELSE
        markupResult(o, sl,
            [text |-> norm, len |-> Len(norm), maxWidth |-> maxWidth,
             maxWidthWithEll |-> ms.maxWidthWithEll, ellipsesStr |-> ms.ellipsesStr],
            markupNoWrapLoop(o,
                [text |-> norm, len |-> Len(norm), maxWidth |-> maxWidth,
                 maxWidthWithEll |-> ms.maxWidthWithEll, ellipsesStr |-> ms.ellipsesStr],
                0, -1, -1))

\* lines 386-402: the size of the container, the fast path, lineHeight > maxHeight
markupSized(o, sl0, text, maxWidth, maxHeight, lineHeight, oriWidth, oriHeight) ==
    IF LE(oriHeight, maxHeight) /\ LE(oriWidth, maxWidth) THEN
        [o |-> o, kind |-> "result",
         sl |-> [sl0 EXCEPT !.oriTextWidth = oriWidth, !.oriTextHeight = oriHeight,
                            !.width = oriWidth, !.height = oriHeight],
         path |-> "fast", m |-> 1, breaks |-> <<>>, cut |-> NoCut]
    ELSE IF GT(lineHeight, maxHeight) THEN
        [o |-> o, kind |-> "result",
         sl |-> [sl0 EXCEPT !.text = <<>>, !.width = 0, !.height = 0,
                            !.oriTextWidth = 0, !.oriTextHeight = 0],
         path |-> "lineHeight", m |-> 1, breaks |-> <<>>, cut |-> NoCut]
    ELSE
        markupFit(o, [sl0 EXCEPT !.oriTextWidth = oriWidth, !.oriTextHeight = oriHeight],
                  Normalize(text), maxWidth,
                  markupStart(o, Normalize(text)[1], maxWidth))

\* getSmartText(text, maxWidth, maxHeight, true) when xmlTagRegEx matches text
getSmartTextMarkup(o, text, maxWidth, maxHeight) ==
    IF ~o._init THEN
        [o |-> o, kind |-> "false", sl |-> NoLabel, path |-> "none", m |-> 0,
         breaks |-> <<>>, cut |-> NoCut]
    ELSE IF o._containerObj = Undef THEN
        [o |-> o, kind |-> "raise", sl |-> NoLabel, path |-> "none", m |-> 0,
         breaks |-> <<>>, cut |-> NoCut]
    ELSE IF o._container = Undef THEN
        [o |-> o, kind |-> "result",
         sl |-> [SmartLabel(text, maxWidth, maxHeight) EXCEPT !.error = TRUE],
         path |-> "error", m |-> 0, breaks |-> <<>>, cut |-> NoCut]
    ELSE
        markupSized(o, SmartLabel(text, maxWidth, maxHeight), text, maxWidth,
                    inflated(maxHeight, LineHeight(o._lineHeight)),
                    LineHeight(o._lineHeight),
                    getWidth(o, text), OffsetHeight(o._container))

callGetSmartTextMarkup(i, a) ==
    \E r \in {getSmartTextMarkup(insts[i], a.text, a.maxWidth, a.maxHeight)} :
        /\ insts' = [insts EXCEPT ![i] = r.o]
        /\ ret' = [Ret("getSmartTextMarkup", i, r.kind) EXCEPT
                        !.a = a, !.sl = r.sl, !.path = r.path, !.m = r.m,
                        !.breaks = r.breaks, !.cut = r.cut,
                        !.changed = (r.o # insts[i])]
        /\ last' = [valid |-> TRUE, inst |-> i, a |-> a, kind |-> r.kind, sl |-> r.sl]
        /\ prev' = IF last.inst = i THEN last ELSE NoCall
        /\ UNCHANGED <<store, args, nbiSlack>>

(***************************************************************************)
(* SpecMarkup: one instance and one no-wrap request, made with the text    *)
(* as it is and with the same text carrying markup.                        *)
(***************************************************************************)
InitMarkup ==
    \E text \in FitTexts, maxWidth \in FitWidths, maxHeight \in FitHeights,
       useEllipses \in BOOLEAN, style \in {"s1", "s2"} :
        LET r == construct([id \in Ids |-> 0], <<>>, "id1", useEllipses, NaN, FALSE)
        IN  /\ store = r.store
            /\ insts = r.insts
            /\ ret = Ret("none", 0, "none")
            /\ last = NoCall
            /\ prev = NoCall
            /\ args = [text |-> text, maxWidth |-> maxWidth, maxHeight |-> maxHeight,
                       noWrap |-> TRUE, style |-> style]
            /\ nbiSlack = 0
            /\ steps = 0

MarkupSetStyle == SetStyle({args.style}, {TRUE}) /\ UNCHANGED steps

MarkupPlainGetSmartText ==
    /\ callGetSmartText(1, [text |-> args.text, maxWidth |-> args.maxWidth,
                            maxHeight |-> args.maxHeight, noWrap |-> TRUE])
    /\ UNCHANGED steps

MarkupGetSmartText ==
    /\ callGetSmartTextMarkup(1, [text |-> args.text, maxWidth |-> args.maxWidth,
                                  maxHeight |-> args.maxHeight, noWrap |-> TRUE])
    /\ UNCHANGED steps

NextMarkup ==
    \/ MarkupSetStyle
    \/ MarkupPlainGetSmartText
    \/ MarkupGetSmartText

SpecMarkup == InitMarkup /\ [][NextMarkup]_vars

\* The positions of the break markers in a text
BreakPoints(text) == {k \in 1..Len(text) : text[k] = BR}

\* p and q, the results of the plain path and of the markup path, break at the
\* same points, keep the same characters, append the same ellipsis and report
\* the same isTruncated flag
SameFit(p, q) ==
    /\ p.kind = q.kind
    /\ BreakPoints(p.sl.text) = BreakPoints(q.sl.text)
    /\ fastTrim(p.sl.text) = fastTrim(q.sl.text)
    /\ (p.path = "truncated") = (q.path = "truncated")
    /\ p.path = "truncated" => p.cut.ellipsesStr = q.cut.ellipsesStr
    /\ p.sl.isTruncated = q.sl.isTruncated

\* C26: the markup-bearing path and the plain-text path are equivalent on the
\* same visible characters with the same geometry and the same bounds: they
\* choose the same break points, keep the same characters, append the same
\* ellipsis and report the same isTruncated flag.
C26_MarkupPathEquivalent ==
    [][(ret'.op = "getSmartTextMarkup" /\ ret'.kind = "result") =>
          SameFit(getSmartText(insts[1], ret'.a.text, ret'.a.maxWidth, ret'.a.maxHeight, TRUE),
                  [sl |-> ret'.sl, kind |-> ret'.kind, path |-> ret'.path, cut |-> ret'.cut])]_vars

\* text is norm with break markers put in, each one added between two
\* characters or standing for a space
RECURSIVE Restores(_, _)
Restores(text, norm) ==
    IF text = <<>> THEN norm = <<>>
    ELSE IF Head(text) = BR THEN
        \/ Restores(Tail(text), norm)
        \/ norm # <<>> /\ Head(norm) = " " /\ Restores(Tail(text), Tail(norm))
    ELSE norm # <<>> /\ Head(text) = Head(norm) /\ Restores(Tail(text), Tail(norm))

\* C27: in wrap mode, when the text is returned untruncated, no character is
\* lost, duplicated or reordered: removing the break markers from the returned
\* text, and putting a space back where a marker replaced a space, gives the
\* normalized input text, whatever number of characters the pre-fill after a
\* break adds.
C27_WrapKeepsCharacters ==
    WrapExhausted => Restores(ret.sl.text, Normalize(ret.a.text))

\* a text was wrapped untruncated with a break after which the new line was
\* pre-filled beyond the characters already examined
C27_Witness ==
    /\ WrapExhausted
    /\ Restores(ret.sl.text, Normalize(ret.a.text))
    /\ \E k \in 1..Len(ret.breaks) :
          /\ Len(ret.breaks[k].carried) > Len(ret.breaks[k].after)
          /\ ret.breaks[k].kind = "hard"
    /\ \E k \in 1..Len(ret.breaks) : ret.breaks[k].kind = "space"

====
